---- MODULE Spec2Model ----
(***************************************************************************)
(* A model of the kemux stream splitter: Processor (discovery,             *)
(* classification, singleton construction, run loop), IOBase (the lazily   *)
(* created topic handler) and StreamOutput (declare and send).             *)
(***************************************************************************)
EXTENDS Integers, Sequences, FiniteSets, TLC

(***************************************************************************)
(* Bounds of the model.                                                    *)
(***************************************************************************)
MaxModules == 3      \* files in a directory under classification
NCallers == 2        \* call sites racing on _get_handler
MaxDeclares == 2     \* declare() calls made on output streams
MaxSends == 2        \* send() calls made on output streams
MaxInitCalls == 2    \* Processor.init calls made before the run loop
MaxDeliveries == 2   \* messages the runtime delivers to the agents

(***************************************************************************)
(* Python's None for object references: objects are numbered from 1.       *)
(***************************************************************************)
None == 0

VARIABLES
    listing,          \* os.listdir(streams_dir) of the directory under classification
    classify_result,  \* what the last classify_models() call returned or raised
    _topic_handler,   \* IOBase._topic_handler of every stream class
    got,              \* what _get_handler returned to each caller, per stream
    never_awaited,    \* coroutine objects created and dropped without being run
    defines_handler,  \* stream classes whose definition supplies a topic_handler attribute
    broker,           \* the broker's topics: declare calls received and messages published
    declare_results,  \* outcome of every StreamOutput.declare() call, per stream
    send_tasks,       \* every StreamOutput.send() call: its arguments and its outcome
    __instance,       \* Processor.__instance, the singleton (None or a Processor)
    processors,       \* every Processor object constructed, in order of construction
    init_returns,     \* every Processor.init call: its arguments and its outcome
    pc,               \* main thread: "idle" before start(), "main" inside app.main()
    stream,           \* the variable `stream` of start(), which the callbacks close over
    agents,           \* Processor.__agents: topic -> agent registered with the runtime
    route_calls       \* every Router.route call made by a consumption callback

(***************************************************************************)
(* Directory entries.  A file is named by its stem (a number) and its      *)
(* extension; its content says what loading it does and which symbols the  *)
(* loaded module exposes.                                                  *)
(*   load   : "ok", or the exception SourceFileLoader.load_module raises   *)
(*   stream : kind of the module's Stream symbol ("none" when absent)      *)
(*   schema : kind of the module's Schema symbol ("none" when absent)      *)
(***************************************************************************)
LoadFailures == {"OSError", "ImportError", "SyntaxError"}
StreamKinds == {"none", "input", "output", "other"}
SchemaKinds == {"none", "input", "output", "base"}

NotPyContent == [py |-> FALSE, load |-> "ok", stream |-> "none", schema |-> "none"]

FileContents ==
    {NotPyContent}
    \cup {[py |-> TRUE, load |-> l, stream |-> "none", schema |-> "none"] : l \in LoadFailures}
    \cup {[py |-> TRUE, load |-> "ok", stream |-> s, schema |-> c] :
              s \in StreamKinds, c \in SchemaKinds}

\* A directory never lists one name twice: the file at position i has stem i.
Listings(n) ==
    UNION {[1..k -> FileContents] : k \in 0..n}

(***************************************************************************)
(* Dictionaries: functions whose domain is the set of keys.                *)
(***************************************************************************)
EmptyDict == [k \in {} |-> None]

Put(d, k, v) == [x \in (DOMAIN d) \cup {k} |-> IF x = k THEN v ELSE d[x]]

(***************************************************************************)
(* Processor.classify_models, the body of the loop for one module.         *)
(* acc is the state of the call: the two dictionaries, the topic and       *)
(* schema attributes set on stream classes, the error log and the          *)
(* exception that ended the call ("none" while it is running).            *)
(* A stream class is identified by the stem of the module defining it.     *)
(***************************************************************************)
LogError(acc, stem, what) ==
    [acc EXCEPT !.log = Append(@, [stem |-> stem, what |-> what])]

Raise(acc, exc) == [acc EXCEPT !.raised = exc]

\* lines 80-84: only OSError and ImportError are caught
LoadModule(acc, stem, file) ==
    IF file.load = "ok" THEN acc
    ELSE IF file.load \in {"OSError", "ImportError"}
         THEN [LogError(acc, stem, "import") EXCEPT !.skip = TRUE]
         ELSE Raise(acc, file.load)

\* lines 89-94 without the assignment of line 93
BindSymbolsNoTopic(acc, stem, file) ==
    LET a1 == IF file.stream = "none" THEN LogError(acc, stem, "no Stream") ELSE acc
        a2 == IF file.schema = "none" THEN LogError(a1, stem, "no Schema") ELSE a1
    IN  IF file.schema = "none" THEN Raise(a2, "AttributeError") ELSE a2

\* lines 89-94: a missing symbol is logged, and the code goes on to use it
BindSymbols(acc, stem, file) ==
    LET a1 == IF file.stream = "none" THEN LogError(acc, stem, "no Stream") ELSE acc
        a2 == IF file.schema = "none" THEN LogError(a1, stem, "no Schema") ELSE a1
    IN  IF file.stream = "none"
        THEN Raise(a2, "AttributeError")             \* None.topic = module_name
        ELSE LET a3 == [a2 EXCEPT !.topic = Put(@, stem, stem)]
             IN  IF file.schema = "none"
                 THEN Raise(a3, "AttributeError")    \* None._find_decorated_fields()
                 ELSE a3

\* lines 96-110
ClassifyDropOutputCheck(acc, stem, file) ==
    IF file.stream = "output"
    THEN [acc EXCEPT !.schema = Put(@, stem, file.schema),
                     !.outputs = Put(@, stem, stem)]
    ELSE IF file.stream = "input"
    THEN IF file.schema # "input"
         THEN LogError(acc, stem, "not an InputSchema")
         ELSE [acc EXCEPT !.schema = Put(@, stem, file.schema),
                          !.inputs = Put(@, stem, stem)]
    ELSE LogError(acc, stem, "neither")

Classify(acc, stem, file) ==
    IF file.stream = "output"
    THEN IF file.schema # "output"
         THEN LogError(acc, stem, "not an OutputSchema")
         ELSE [acc EXCEPT !.schema = Put(@, stem, file.schema),
                          !.outputs = Put(@, stem, stem)]
    ELSE IF file.stream = "input"
    THEN IF file.schema # "input"
         THEN LogError(acc, stem, "not an InputSchema")
         ELSE [acc EXCEPT !.schema = Put(@, stem, file.schema),
                          !.inputs = Put(@, stem, stem)]
    ELSE LogError(acc, stem, "neither")

ClassifyModule(acc, stem, file) ==
    LET a1 == LoadModule([acc EXCEPT !.skip = FALSE], stem, file)
    IN  IF a1.raised # "none" \/ a1.skip THEN a1
        ELSE LET a2 == BindSymbols(a1, stem, file)
             IN  IF a2.raised # "none" THEN a2
                 ELSE Classify(a2, stem, file)

\* lines 71-77: the .py files of the listing, in listing order
RECURSIVE ClassifyLoop(_, _, _)
ClassifyLoop(acc, files, i) ==
    IF i > Len(files) \/ acc.raised # "none" THEN acc
    ELSE IF ~files[i].py THEN ClassifyLoop(acc, files, i + 1)
    ELSE ClassifyLoop(ClassifyModule(acc, i, files[i]), files, i + 1)

NoResult ==
    [raised |-> "none", returned |-> FALSE, skip |-> FALSE,
     inputs |-> EmptyDict, outputs |-> EmptyDict,
     topic |-> EmptyDict, schema |-> EmptyDict, log |-> << >>]

\* lines 65-111 without the check of lines 69-70
classify_models_unchecked(exists, files) ==
    LET r == ClassifyLoop(NoResult, files, 1)
    IN  IF r.raised = "none"
        THEN [r EXCEPT !.returned = TRUE, !.skip = FALSE]
        ELSE [r EXCEPT !.skip = FALSE, !.inputs = EmptyDict, !.outputs = EmptyDict]

\* lines 65-111
classify_models(exists, files) ==
    IF ~exists THEN Raise(NoResult, "ValueError")
    ELSE LET r == ClassifyLoop(NoResult, files, 1)
         IN  IF r.raised = "none"
             THEN [r EXCEPT !.returned = TRUE, !.skip = FALSE]
             \* the dictionaries are locals of the call and are lost with it;
             \* the attributes set on the loaded classes and the log remain
             ELSE [r EXCEPT !.skip = FALSE, !.inputs = EmptyDict, !.outputs = EmptyDict]

(***************************************************************************)
(* The streams directory of a deployment: two input streams and three      *)
(* output streams, every module well formed.                               *)
(***************************************************************************)
InputModule == [py |-> TRUE, load |-> "ok", stream |-> "input", schema |-> "input"]
OutputModule == [py |-> TRUE, load |-> "ok", stream |-> "output", schema |-> "output"]

StreamsDirectory == <<InputModule, InputModule, OutputModule, OutputModule, OutputModule>>

Streams == DOMAIN StreamsDirectory
Inputs == {s \in Streams : StreamsDirectory[s].stream = "input"}
Outputs == {s \in Streams : StreamsDirectory[s].stream = "output"}

(***************************************************************************)
(* Messages.  The concrete output schemas are written by the deployment:   *)
(* every transform rewrites the message, and the validators differ from    *)
(* schema to schema, so that a message and its transform need not be       *)
(* valid together.                                                         *)
(***************************************************************************)
Data == {"a", "b", "c"}
KemuxInit == "__kemux_init__"

\* what an agent is handed: a message every overriding filter accepts, one
\* that a filter refuses, or the marker a declare left on a topic
Consumed == {"a", "b", KemuxInit}

transform(o, message) ==
    CASE message = "a" -> "b"
      [] message = "b" -> "c"
      [] message = "c" -> "a"
      [] OTHER -> message

validate(o, message) ==
    /\ message \in Data
    /\ CASE o % 3 = 0 -> message # "c"
         [] o % 3 = 1 -> message = "a"
         [] OTHER -> TRUE

(***************************************************************************)
(* The broker.  A handle addresses one topic; declaring through it counts  *)
(* a declare call on the topic, sending through it appends to the topic.   *)
(***************************************************************************)
EmptyTopic == [declares |-> 0, log |-> << >>]

TopicDeclare(brk, topic) == [brk EXCEPT ![topic].declares = @ + 1]

TopicSend(brk, topic, value) == [brk EXCEPT ![topic].log = Append(@, value)]

(***************************************************************************)
(* IOBase.  _topic_handler is the class attribute the dataclass field      *)
(* leaves behind (None).  _initialize_handler is a coroutine function:     *)
(* calling it builds a coroutine object and runs none of its body; the     *)
(* body runs only when the object is awaited or scheduled.                 *)
(***************************************************************************)
AppTopic(s) == Cardinality(Streams) + s     \* the handle app.topic(cls.topic) makes

\* base.py 27-35, the body: what awaiting the coroutine would do
_initialize_handler(cache, brk, s) ==
    [cache |-> [cache EXCEPT ![s] = AppTopic(s)],
     broker |-> TopicDeclare(brk, s)]

\* base.py 20-24: the coroutine object of line 23 is dropped where it is made
_get_handler(cache, s) ==
    IF cache[s] = None
    THEN [cache |-> cache, dropped |-> 1, returns |-> cache[s]]
    ELSE [cache |-> cache, dropped |-> 0, returns |-> cache[s]]

(***************************************************************************)
(* StreamOutput.  send and __declare read the attribute topic_handler,     *)
(* which neither IOBase nor StreamOutput defines: the lookup succeeds      *)
(* only on a class whose own definition supplies it, and raises            *)
(* AttributeError on every other.                                          *)
(***************************************************************************)
HasTopicHandler(o) == o \in defines_handler

topic_handler(o) == o        \* the handle the class definition supplies, on its own topic

\* output.py 16-23
send(brk, o, message) ==
    LET transformed_message == transform(o, message)
    IN  IF validate(o, transformed_message)
        THEN IF HasTopicHandler(o)
             THEN [broker |-> TopicSend(brk, topic_handler(o), transformed_message),
                   status |-> "published", value |-> transformed_message]
             ELSE [broker |-> brk, status |-> "AttributeError", value |-> ""]
        ELSE [broker |-> brk, status |-> "warning", value |-> ""]

\* output.py 32-34, without the send of lines 35-37
__declare_no_marker(brk, o) ==
    IF HasTopicHandler(o)
    THEN [broker |-> TopicDeclare(brk, topic_handler(o)), status |-> "ok"]
    ELSE [broker |-> brk, status |-> "AttributeError"]

\* output.py 32-37
__declare(brk, o) ==
    IF HasTopicHandler(o)
    THEN [broker |-> TopicSend(TopicDeclare(brk, topic_handler(o)), topic_handler(o), KemuxInit),
          status |-> "ok"]
    ELSE [broker |-> brk, status |-> "AttributeError"]

\* output.py 25-30: the coroutine is driven to its end before declare returns
declare(brk, o) == __declare(brk, o)

(***************************************************************************)
(* The keys of a dictionary in insertion order.  classify_models inserts   *)
(* in listing order, which is the order of the stems.                      *)
(***************************************************************************)
RECURSIVE Ascending(_)
Ascending(S) ==
    IF S = {} THEN << >>
    ELSE LET m == CHOOSE x \in S : \A y \in S : x <= y
         IN  <<m>> \o Ascending(S \ {m})

Keys(d) == Ascending(DOMAIN d)

(***************************************************************************)
(* Router (kemux.logic.routing).  Its constructor declares every output    *)
(* stream, so that each is declared before a message is routed to it;      *)
(* route fans a message out to every output whose filter accepts it, an    *)
(* error raised by a filter counting as a refusal.                         *)
(***************************************************************************)
RECURSIVE DeclareOutputs(_, _, _)
DeclareOutputs(st, outputs, keys) ==
    IF keys = << >> \/ st.raised # "none" THEN st
    ELSE LET o == outputs[Head(keys)]
             r == declare(st.broker, o)
         IN  DeclareOutputs(
                 [broker |-> r.broker,
                  results |-> [st.results EXCEPT ![o] = Append(@, r.status)],
                  raised |-> IF r.status = "ok" THEN "none" ELSE r.status],
                 outputs, Tail(keys))

Router(brk, results, inputs, outputs) ==
    DeclareOutputs([broker |-> brk, results |-> results, raised |-> "none"],
                   outputs, Keys(outputs))

\* output.py 12-14 is the default; a stream class may override it
OverridesFilter == {o \in Outputs : o % 3 # 1}

\* output.py 12-14 with the default accepting instead of raising
filter_default_accepts(o, message) ==
    IF o \in OverridesFilter
    THEN IF o % 3 = 0 \/ message # "b" THEN "True" ELSE "False"
    ELSE "True"

filter(o, message) ==
    IF o \in OverridesFilter
    THEN IF o % 3 = 0 \/ message # "b" THEN "True" ELSE "False"
    ELSE "NotImplementedError"

RECURSIVE route(_, _, _, _)
route(tasks, outputs, keys, message) ==
    IF keys = << >> THEN tasks
    ELSE LET o == outputs[Head(keys)]
             t == [output |-> o, message |-> message, status |-> "pending", value |-> ""]
         IN  route(IF filter(o, message) = "True" THEN Append(tasks, t) ELSE tasks,
                   outputs, Tail(keys), message)

(***************************************************************************)
(* Processor.                                                              *)
(***************************************************************************)
Directories == {"streams", "missing"}
KafkaAddresses == {"kafka:9092", "localhost:9092"}

isdir(streams_dir) == streams_dir = "streams"

listdir(streams_dir) == IF isdir(streams_dir) THEN listing ELSE << >>

NoRouter == [built |-> FALSE, inputs |-> EmptyDict, outputs |-> EmptyDict]

\* processing.py 36
AlwaysConstructs(instance) == TRUE

NoInstanceYet(instance) == instance = None

\* processing.py 34-63.  st holds the class attribute __instance, the objects
\* constructed so far and the broker; the result adds what the call did.
init(st, kafka_address, data_dir, streams_dir) ==
    IF NoInstanceYet(st.instance)
    THEN LET id == Len(st.processors) + 1
             instance == [kafka_address |-> kafka_address,
                          streams_dir |-> streams_dir,
                          persistent_data_directory |-> data_dir,
                          app |-> id, _app |-> None, router |-> NoRouter]
             models == classify_models(isdir(streams_dir), listdir(streams_dir))
             r == Router(st.broker, st.results, models.inputs, models.outputs)
         IN  IF models.raised # "none"
             THEN [instance |-> st.instance,
                   processors |-> Append(st.processors, instance),
                   broker |-> st.broker, results |-> st.results,
                   raised |-> models.raised, returns |-> None]
             ELSE IF r.raised # "none"
             THEN [instance |-> st.instance,
                   processors |-> Append(st.processors, instance),
                   broker |-> r.broker, results |-> r.results,
                   raised |-> r.raised, returns |-> None]
             ELSE [instance |-> id,
                   processors |-> Append(st.processors,
                       [instance EXCEPT !._app = id,
                                        !.router = [built |-> TRUE,
                                                    inputs |-> models.inputs,
                                                    outputs |-> models.outputs]]),
                   broker |-> r.broker, results |-> r.results,
                   raised |-> "none", returns |-> id]
    ELSE [instance |-> st.instance, processors |-> st.processors,
          broker |-> st.broker, results |-> st.results,
          raised |-> "none", returns |-> st.instance]

\* processing.py 115-126, the loop: st holds the handler cache, the dropped
\* coroutines, the agents and the variable `stream`
\* processing.py 115-126 with line 126 keying every agent by one name
RECURSIVE StartLoopOneKey(_, _, _)
StartLoopOneKey(st, inputs, keys) ==
    IF keys = << >> THEN st
    ELSE LET s == inputs[Head(keys)]
             h == _get_handler(st.cache, s)
         IN  StartLoopOneKey(
                 [cache |-> h.cache,
                  dropped |-> [st.dropped EXCEPT ![s] = @ + h.dropped],
                  handlers |-> Put(st.handlers, s, h.returns),
                  stream |-> s,
                  agents |-> Put(st.agents, 1,
                                 [channel |-> h.returns,
                                  fun |-> "_process_input_stream_message"])],
                 inputs, Tail(keys))

RECURSIVE StartLoop(_, _, _)
StartLoop(st, inputs, keys) ==
    IF keys = << >> THEN st
    ELSE LET s == inputs[Head(keys)]
             h == _get_handler(st.cache, s)
             topic == classify_result.topic[s]
         IN  StartLoop(
                 [cache |-> h.cache,
                  dropped |-> [st.dropped EXCEPT ![s] = @ + h.dropped],
                  handlers |-> Put(st.handlers, s, h.returns),
                  stream |-> s,
                  agents |-> Put(st.agents, topic,
                                 [channel |-> h.returns,
                                  fun |-> "_process_input_stream_message"])],
                 inputs, Tail(keys))

(***************************************************************************)
(* Specifications.                                                         *)
(***************************************************************************)
cvars == <<listing, classify_result>>
hvars == <<_topic_handler, got, never_awaited>>
ovars == <<defines_handler, broker, declare_results, send_tasks>>
pvars == <<__instance, processors, init_returns, pc, stream, agents, route_calls>>
vars == <<cvars, hvars, ovars, pvars>>

NotCalled == 0 - 1

InitStreams ==
    /\ _topic_handler = [s \in Streams |-> None]
    /\ got = [c \in 1..NCallers |-> [s \in Streams |-> NotCalled]]
    /\ never_awaited = [s \in Streams |-> 0]
    /\ broker = [s \in Streams |-> EmptyTopic]
    /\ declare_results = [s \in Outputs |-> << >>]
    /\ send_tasks = << >>
    /\ __instance = None
    /\ processors = << >>
    /\ init_returns = << >>
    /\ pc = "idle"
    /\ stream = None
    /\ agents = EmptyDict
    /\ route_calls = << >>

(***************************************************************************)
(* Classification on its own: a Processor is constructed over a directory  *)
(* with an arbitrary listing and classify_models is called on it.          *)
(***************************************************************************)
InitClassify ==
    /\ listing \in Listings(MaxModules)
    /\ classify_result = NoResult
    /\ defines_handler = {}
    /\ InitStreams

CallClassifyModels ==
    /\ classify_result = NoResult
    /\ classify_result' = classify_models(TRUE, listing)
    /\ UNCHANGED <<listing, hvars, ovars, pvars>>

NextClassify == CallClassifyModels

SpecClassify == InitClassify /\ [][NextClassify]_vars

(***************************************************************************)
(* The topic handler on its own: NCallers call sites call _get_handler on  *)
(* the classified streams, in any order.  _get_handler is a plain          *)
(* function: it has no suspension point, so each call is one step.         *)
(***************************************************************************)
InitHandler ==
    /\ listing = StreamsDirectory
    /\ classify_result = classify_models(TRUE, StreamsDirectory)
    /\ defines_handler = {}
    /\ InitStreams

GetHandler(c, s) ==
    /\ got[c][s] = NotCalled
    /\ LET r == _get_handler(_topic_handler, s)
       IN  /\ _topic_handler' = r.cache
           /\ never_awaited' = [never_awaited EXCEPT ![s] = @ + r.dropped]
           /\ got' = [got EXCEPT ![c][s] = r.returns]
    /\ UNCHANGED <<cvars, ovars, pvars>>

NextHandler == \E c \in 1..NCallers, s \in Streams : GetHandler(c, s)

SpecHandler == InitHandler /\ [][NextHandler]_vars

(***************************************************************************)
(* The output streams on their own: declare and send are called on the     *)
(* classified output streams, in any order.                                *)
(***************************************************************************)
InitOutput ==
    /\ listing = StreamsDirectory
    /\ classify_result = classify_models(TRUE, StreamsDirectory)
    /\ defines_handler \in SUBSET Outputs
    /\ InitStreams

DeclareCalls ==
    LET RECURSIVE Sum(_)
        Sum(S) == IF S = {} THEN 0
                  ELSE LET o == CHOOSE x \in S : TRUE
                       IN  Len(declare_results[o]) + Sum(S \ {o})
    IN  Sum(Outputs)

CallDeclare(o) ==
    /\ DeclareCalls < MaxDeclares
    /\ LET r == declare(broker, o)
       IN  /\ broker' = r.broker
           /\ declare_results' = [declare_results EXCEPT ![o] = Append(@, r.status)]
    /\ UNCHANGED <<cvars, hvars, pvars, defines_handler, send_tasks>>

CallSend(o, message) ==
    /\ Len(send_tasks) < MaxSends
    /\ LET r == send(broker, o, message)
       IN  /\ broker' = r.broker
           /\ send_tasks' = Append(send_tasks,
                  [output |-> o, message |-> message, status |-> r.status, value |-> r.value])
    /\ UNCHANGED <<cvars, hvars, pvars, defines_handler, declare_results>>

NextOutput ==
    \/ \E o \in Outputs : CallDeclare(o)
    \/ \E o \in Outputs, message \in Data : CallSend(o, message)

SpecOutput == InitOutput /\ [][NextOutput]_vars

(***************************************************************************)
(* The process: Processor.init is called any number of times, start() is   *)
(* called on the instance it returned, and inside app.main() the runtime   *)
(* delivers messages to the agents and runs the send tasks.                *)
(***************************************************************************)
Init ==
    /\ listing = StreamsDirectory
    /\ classify_result = NoResult
    /\ defines_handler \in SUBSET Outputs
    /\ InitStreams

CallInit(kafka_address, data_dir, streams_dir) ==
    /\ pc = "idle"
    /\ Len(init_returns) < MaxInitCalls
    /\ LET r == init([instance |-> __instance, processors |-> processors,
                      broker |-> broker, results |-> declare_results],
                     kafka_address, data_dir, streams_dir)
           constructs == Len(r.processors) > Len(processors)
       IN  /\ __instance' = r.instance
           /\ processors' = r.processors
           /\ broker' = r.broker
           /\ declare_results' = r.results
           /\ classify_result' =
                  IF constructs
                  THEN classify_models(isdir(streams_dir), listdir(streams_dir))
                  ELSE classify_result
           /\ init_returns' = Append(init_returns,
                  [kafka_address |-> kafka_address, streams_dir |-> streams_dir,
                   before |-> __instance,
                   constructed |-> IF constructs THEN Len(r.processors) ELSE None,
                   raised |-> r.raised, returns |-> r.returns])
    /\ UNCHANGED <<listing, hvars, defines_handler, send_tasks,
                   pc, stream, agents, route_calls>>

\* processing.py 113-127
start ==
    /\ pc = "idle"
    /\ __instance # None
    /\ LET self == processors[__instance]
           st == StartLoop([cache |-> _topic_handler, dropped |-> never_awaited,
                            handlers |-> EmptyDict, stream |-> stream, agents |-> agents],
                           self.router.inputs, Keys(self.router.inputs))
       IN  /\ _topic_handler' = st.cache
           /\ never_awaited' = st.dropped
           /\ got' = [got EXCEPT ![1] =
                         [s \in Streams |-> IF s \in DOMAIN st.handlers
                                            THEN st.handlers[s] ELSE @[s]]]
           /\ stream' = st.stream
           /\ agents' = st.agents
    /\ pc' = "main"
    /\ UNCHANGED <<cvars, ovars, __instance, processors, init_returns, route_calls>>

\* processing.py 120-124: the runtime hands a consumed message to the agent
\* registered under topic; the callback reads `stream` when it runs
_process_input_stream_message(topic, message) ==
    /\ pc = "main"
    /\ topic \in DOMAIN agents
    /\ Len(route_calls) < MaxDeliveries
    /\ LET router == processors[__instance].router
       IN  /\ route_calls' = Append(route_calls,
                  [topic |-> topic, stream |-> stream, message |-> message])
           /\ send_tasks' = route(send_tasks, router.outputs, Keys(router.outputs), message)
    /\ UNCHANGED <<cvars, hvars, defines_handler, broker, declare_results,
                   __instance, processors, init_returns, pc, stream, agents>>

\* a send task made by route runs
RunSend(i) ==
    /\ send_tasks[i].status = "pending"
    /\ LET r == send(broker, send_tasks[i].output, send_tasks[i].message)
       IN  /\ broker' = r.broker
           /\ send_tasks' = [send_tasks EXCEPT ![i].status = r.status, ![i].value = r.value]
    /\ UNCHANGED <<cvars, hvars, pvars, defines_handler, declare_results>>

Next ==
    \/ \E kafka_address \in KafkaAddresses, streams_dir \in Directories :
           CallInit(kafka_address, "data", streams_dir)
    \/ start
    \/ \E topic \in Streams, message \in Consumed :
           _process_input_stream_message(topic, message)
    \/ \E i \in DOMAIN send_tasks : RunSend(i)

Spec == Init /\ [][Next]_vars

(***************************************************************************)
(* Properties.                                                             *)
(***************************************************************************)
Range(f) == {f[x] : x \in DOMAIN f}

Valid(t) == validate(t.output, transform(t.output, t.message))

\* C1: every send call publishes exactly when the transformed message is
\* valid, what it publishes is the transformed message, and a call whose
\* transformed message is invalid ends with a warning and no publish.
C1_SendPublishesIffValid ==
    \A i \in DOMAIN send_tasks :
        LET t == send_tasks[i]
        IN  /\ (t.status = "published") <=> Valid(t)
            /\ t.status = "published" => t.value = transform(t.output, t.message)
            /\ ~Valid(t) => t.status = "warning"

Callers(s) == {c \in 1..NCallers : got[c][s] # NotCalled}

\* C2: once callers have called _get_handler on a stream, exactly one declare
\* call has been issued for its topic and every caller holds the same handle,
\* which is not None.
C2_OneDeclareOneHandle ==
    \A s \in Streams :
        Callers(s) # {} =>
            /\ broker[s].declares = 1
            /\ \A c \in Callers(s) : got[c][s] # None
            /\ \A c, d \in Callers(s) : got[c][s] = got[d][s]

DataPublished(o) == \E i \in DOMAIN broker[o].log : broker[o].log[i] \in Data

C4_RouteGetsArrivalStream ==
    \A i \in DOMAIN route_calls :
        route_calls[i].stream = processors[__instance].router.inputs[route_calls[i].topic]

\* C5, as claimed: over any sequence of init calls at most one Processor (and
\* with it one broker application) is constructed, and every call returns it.
C5_AtMostOneConstructed ==
    /\ Len(processors) <= 1
    /\ \A i \in DOMAIN init_returns : init_returns[i].returns = 1

\* C5, amended: once a call has stored the singleton, no step changes the
\* singleton or any constructed Processor (configuration, router, stream
\* mappings), and every init call, whatever its arguments, constructs
\* nothing and returns the singleton.
C5_IdempotentOnceStored ==
    [][__instance # None =>
          /\ __instance' = __instance
          /\ processors' = processors
          /\ Len(init_returns') > Len(init_returns) =>
                 LET r == init_returns'[Len(init_returns')]
                 IN  r.returns = __instance /\ r.raised = "none" /\ r.constructed = None
      ]_vars

C5_Witness ==
    \E i, j \in DOMAIN init_returns :
        /\ i < j
        /\ init_returns[i].constructed # None
        /\ init_returns[i].returns = __instance
        /\ __instance # None
        /\ init_returns[j].kafka_address # init_returns[i].kafka_address
        /\ init_returns[j].streams_dir # init_returns[i].streams_dir
        /\ init_returns[j].returns = __instance

Called == classify_result # NoResult

WellFormed(f) ==
    /\ f.py /\ f.load = "ok"
    /\ \/ f.stream = "input" /\ f.schema = "input"
       \/ f.stream = "output" /\ f.schema = "output"

LoadFails(f) == f.py /\ f.load # "ok"

MissingSymbol(f) == f.py /\ f.load = "ok" /\ (f.stream = "none" \/ f.schema = "none")

Classified == DOMAIN classify_result.inputs \cup DOMAIN classify_result.outputs

Logged(i) == \E k \in DOMAIN classify_result.log : classify_result.log[k].stem = i

\* C6: in a directory whose modules are well formed or fail to load, the call
\* returns, the modules that fail to load are logged and left out, and the
\* well-formed ones are all classified.
C6_LoadFailureIsSkipped ==
    (Called /\ \A i \in DOMAIN listing : WellFormed(listing[i]) \/ LoadFails(listing[i])) =>
        /\ classify_result.returned
        /\ Classified = {i \in DOMAIN listing : WellFormed(listing[i])}
        /\ \A i \in DOMAIN listing : LoadFails(listing[i]) => Logged(i)

\* C7: in a directory whose modules are well formed or lack a Stream or a
\* Schema symbol, the call returns, the modules lacking a symbol are logged
\* and left out, and the well-formed ones are all classified.
C7_MissingSymbolIsSkipped ==
    (Called /\ \A i \in DOMAIN listing : WellFormed(listing[i]) \/ MissingSymbol(listing[i])) =>
        /\ classify_result.returned
        /\ Classified = {i \in DOMAIN listing : WellFormed(listing[i])}
        /\ \A i \in DOMAIN listing : MissingSymbol(listing[i]) => Logged(i)

\* C8: the two returned dictionaries share no key; a key of the output
\* dictionary is an output stream with an output schema, a key of the input
\* dictionary an input stream with an input schema; a loaded module whose
\* schema fails the capability check, or whose stream is of neither kind,
\* is in neither.
C8_DisjointTypedMappings ==
    classify_result.returned =>
        /\ DOMAIN classify_result.inputs \cap DOMAIN classify_result.outputs = {}
        /\ \A k \in DOMAIN classify_result.outputs :
               LET f == listing[classify_result.outputs[k]]
               IN  f.stream = "output" /\ f.schema = "output"
        /\ \A k \in DOMAIN classify_result.inputs :
               LET f == listing[classify_result.inputs[k]]
               IN  f.stream = "input" /\ f.schema = "input"
        /\ \A i \in DOMAIN listing :
               (listing[i].py /\ listing[i].load = "ok" /\ ~WellFormed(listing[i]))
                   => i \notin Classified

C8_Witness ==
    /\ classify_result.returned
    /\ DOMAIN classify_result.inputs # {}
    /\ DOMAIN classify_result.outputs # {}
    /\ \E i \in DOMAIN listing :
           listing[i].stream = "output" /\ listing[i].schema \in {"input", "base"}

AtStartup(r) == r.before = None /\ ~isdir(r.streams_dir)

\* C9: an init call made with no singleton yet on a directory that does not
\* exist raises ValueError, returns nothing and builds no router; while every
\* call made so far was such a call, no singleton is stored, no agent is
\* registered and the run loop has not been entered.
C9_MissingDirectoryIsFatal ==
    /\ \A i \in DOMAIN init_returns :
           AtStartup(init_returns[i]) =>
               /\ init_returns[i].raised = "ValueError"
               /\ init_returns[i].returns = None
               /\ ~processors[init_returns[i].constructed].router.built
    /\ (\A i \in DOMAIN init_returns : AtStartup(init_returns[i])) =>
           /\ __instance = None
           /\ agents = EmptyDict
           /\ pc = "idle"
           /\ \A p \in DOMAIN processors : ~processors[p].router.built

C9_Witness ==
    /\ Len(init_returns) = MaxInitCalls
    /\ \A i \in DOMAIN init_returns : AtStartup(init_returns[i])

Markers(o) == Cardinality({i \in DOMAIN broker[o].log : broker[o].log[i] = KemuxInit})

\* C10: an output stream on which declare has completed has received exactly
\* one broker declare call and exactly one init marker, however many times
\* declare was called on it.
C10_RedeclareIsNoOp ==
    \A o \in Outputs :
        "ok" \in Range(declare_results[o]) =>
            broker[o].declares = 1 /\ Markers(o) = 1

Routed(message) == {i \in DOMAIN route_calls : route_calls[i].message = message}

Tasks(o, message) ==
    {i \in DOMAIN send_tasks : send_tasks[i].output = o /\ send_tasks[i].message = message}

Accepting(message) ==
    {o \in OverridesFilter : o % 3 = 0 \/ message # "b"}

Raising == Outputs \ OverridesFilter

Stem(i) == i

\* the last .py file of the listing, in listing order, whose stem is name
LastWithStem(name) ==
    LET S == {i \in DOMAIN listing : listing[i].py /\ Stem(i) = name}
    IN  CHOOSE i \in S : \A j \in S : j <= i

Bound(mapping) ==
    \A name \in DOMAIN mapping :
        /\ mapping[name] \in DOMAIN classify_result.topic
        /\ classify_result.topic[mapping[name]] = name
        /\ \E i \in DOMAIN listing : listing[i].py /\ Stem(i) = name
        /\ mapping[name] = LastWithStem(name)

C13_ActiveHasDeclaredHandle ==
    /\ \A topic \in DOMAIN agents :
           agents[topic].channel # None /\ broker[topic].declares >= 1
    /\ \A c \in 1..NCallers : \A s \in Streams :
           got[c][s] # NotCalled =>
               /\ got[c][s] # None
               /\ got[c][s] = _topic_handler[s]
               /\ broker[s].declares >= 1

RouterInputs == processors[__instance].router.inputs

\* C14: inside app.main() the registered agents are keyed by exactly the
\* topics of the router's input streams, distinct input streams have
\* distinct keys, and no key is the topic of anything but an input stream.
C14_OneAgentPerInput ==
    pc = "main" =>
        /\ DOMAIN agents = {classify_result.topic[RouterInputs[k]] : k \in DOMAIN RouterInputs}
        /\ Cardinality(DOMAIN agents) = Cardinality(DOMAIN RouterInputs)
        /\ DOMAIN agents = DOMAIN RouterInputs
        /\ DOMAIN agents \cap DOMAIN processors[__instance].router.outputs = {}

C14_Witness ==
    /\ pc = "main"
    /\ Cardinality(DOMAIN RouterInputs) >= 2
    /\ \A k \in DOMAIN RouterInputs : k \in DOMAIN agents

\* C15: the init marker is never passed to Router.route and never handed to
\* an output stream's send.
C15_MarkerIsNotData ==
    /\ \A i \in DOMAIN route_calls : route_calls[i].message # KemuxInit
    /\ \A i \in DOMAIN send_tasks : send_tasks[i].message # KemuxInit

\* C16: every send whose transformed message is valid, and every declare,
\* goes through the handle that _get_handler caches for the stream: the
\* lookup does not fail, and the handle used is the cached one, not None.
C16_SendUsesCachedHandle ==
    /\ \A i \in DOMAIN send_tasks :
           LET t == send_tasks[i]
           IN  (t.status # "pending" /\ Valid(t)) =>
                   /\ t.status = "published"
                   /\ _topic_handler[t.output] # None
                   /\ topic_handler(t.output) = _topic_handler[t.output]
    /\ \A o \in Outputs : \A i \in DOMAIN declare_results[o] :
           /\ declare_results[o][i] = "ok"
           /\ _topic_handler[o] # None
           /\ topic_handler(o) = _topic_handler[o]

====
